---- MODULE Spec2Model ----
(***************************************************************************)
(* Model of api/search.py: the three module-level loaders (inverted index, *)
(* doc_meta.csv, corpus_clean_v2.csv), the BM25 ranker bm25_search and the *)
(* HTTP handler handler.do_GET.                                            *)
(*                                                                         *)
(* Text (query strings, CSV cells, document ids) is a sequence of          *)
(* one-character strings, so that int(), str(), strip(), lower() and       *)
(* split() are computed and not assumed.  Floating-point scores are        *)
(* fixed-point integers in units of 1/Scale; math.log is a truncated       *)
(* series whose sign is exact.                                             *)
(***************************************************************************)
EXTENDS Integers, Sequences, FiniteSets, TLC

(***************************************************************************)
(* Bounds of the model.                                                    *)
(***************************************************************************)
MaxPostings == 2
MaxMetaRows == 2
MaxContentRows == 2
MaxQLen == 3

(***************************************************************************)
(* Program constants.                                                      *)
(***************************************************************************)
DefaultTopK == 20
FallbackAvgDl == 300
\* k1 = 1.5 and b = 0.75, as fractions
K1Num == 3
K1Den == 2
BNum == 3
BDen == 4

\* Fixed-point unit of scores and number of series terms of Ln.
Scale == 10000
LnTerms == 12

None == "None"

\* doc_len of a result whose document has no metadata (JSON null)
NullLen == -1

(***************************************************************************)
(* Python dict, as a function; insertion order is kept where the program   *)
(* depends on it (postings, scores) by using sequences instead.            *)
(***************************************************************************)
EmptyDict == <<>>

Get(d, k, default) == IF k \in DOMAIN d THEN d[k] ELSE default

Put(d, k, v) == [x \in (DOMAIN d) \cup {k} |-> IF x = k THEN v ELSE d[x]]

(***************************************************************************)
(* str methods and int()/str() conversions.                                *)
(***************************************************************************)
Whitespace == {" "}

DigitChars == {"0", "1", "2", "3", "4", "5", "6", "7", "8", "9"}

DigitVal(c) ==
    CASE c = "0" -> 0 [] c = "1" -> 1 [] c = "2" -> 2 [] c = "3" -> 3
      [] c = "4" -> 4 [] c = "5" -> 5 [] c = "6" -> 6 [] c = "7" -> 7
      [] c = "8" -> 8 [] c = "9" -> 9

DigitChar(n) ==
    CASE n = 0 -> "0" [] n = 1 -> "1" [] n = 2 -> "2" [] n = 3 -> "3"
      [] n = 4 -> "4" [] n = 5 -> "5" [] n = 6 -> "6" [] n = 7 -> "7"
      [] n = 8 -> "8" [] n = 9 -> "9"

RECURSIVE LStrip(_)
LStrip(s) ==
    IF s # <<>> /\ Head(s) \in Whitespace THEN LStrip(Tail(s)) ELSE s

RECURSIVE RStrip(_)
RStrip(s) ==
    IF s # <<>> /\ s[Len(s)] \in Whitespace
    THEN RStrip(SubSeq(s, 1, Len(s) - 1))
    ELSE s

\* str.strip()
Strip(s) == RStrip(LStrip(s))

LowerChar(c) ==
    CASE c = "A" -> "a" [] c = "B" -> "b" [] OTHER -> c

\* str.lower()
Lower(s) == [i \in 1..Len(s) |-> LowerChar(s[i])]

\* str.split(): maximal runs of non-whitespace characters, in order.
RECURSIVE SplitFrom(_, _, _)
SplitFrom(s, cur, acc) ==
    IF s = <<>>
    THEN IF cur = <<>> THEN acc ELSE Append(acc, cur)
    ELSE IF Head(s) \in Whitespace
         THEN SplitFrom(Tail(s), <<>>,
                        IF cur = <<>> THEN acc ELSE Append(acc, cur))
         ELSE SplitFrom(Tail(s), Append(cur, Head(s)), acc)

Split(s) == SplitFrom(s, <<>>, <<>>)

RECURSIVE DigitsVal(_, _)
DigitsVal(s, acc) ==
    IF s = <<>> THEN acc ELSE DigitsVal(Tail(s), 10 * acc + DigitVal(Head(s)))

\* int(s): surrounding whitespace is ignored, one optional sign, then one or
\* more decimal digits; anything else raises ValueError (ok = FALSE).
IntParse(s) ==
    LET t == Strip(s)
        signed == t # <<>> /\ Head(t) \in {"+", "-"}
        digits == IF signed THEN Tail(t) ELSE t
        ok == digits # <<>> /\ \A i \in 1..Len(digits) : digits[i] \in DigitChars
    IN  IF ok
        THEN [ok |-> TRUE,
              val |-> IF signed /\ Head(t) = "-"
                      THEN 0 - DigitsVal(digits, 0)
                      ELSE DigitsVal(digits, 0)]
        ELSE [ok |-> FALSE, val |-> 0]

RECURSIVE NatToStr(_)
NatToStr(n) ==
    IF n < 10 THEN <<DigitChar(n)>>
    ELSE Append(NatToStr(n \div 10), DigitChar(n % 10))

\* str(n) of an int: canonical decimal, no leading zeros, "-" when negative.
IntToStr(n) == IF n < 0 THEN <<"-">> \o NatToStr(0 - n) ELSE NatToStr(n)

(***************************************************************************)
(* Global state of the module, the request in flight and its response.     *)
(***************************************************************************)
VARIABLES
    pc,              \* "load_index", "load_meta", "load_content", "serving",
                     \* "served" (do_GET has written its response)
    INVERTED_INDEX,  \* term -> sequence of [doc_id, freq], in file order
    DOC_META,        \* doc_id -> [url, title, image_url, doc_len]
    DOC_LENGTHS,     \* doc_id -> doc_len
    DOC_CONTENT,     \* doc_id -> content_final, stripped
    TOTAL_DOCS,
    INIT_ERROR,      \* None or the message of the failed loader
    request,         \* parse_qs(query string): first value of doc_id, q, top_k
    response         \* [status, body] written by do_GET

tables == <<INVERTED_INDEX, DOC_META, DOC_LENGTHS, DOC_CONTENT, TOTAL_DOCS, INIT_ERROR>>

vars == <<pc, INVERTED_INDEX, DOC_META, DOC_LENGTHS, DOC_CONTENT, TOTAL_DOCS,
          INIT_ERROR, request, response>>

(***************************************************************************)
(* The data files the loaders may find.                                    *)
(***************************************************************************)
DocIds == {<<"0">>, <<"1">>}

Terms == {<<"a">>, <<"b">>}

Freqs == {1, 2}

RECURSIVE SeqsUpTo(_, _)
SeqsUpTo(S, n) ==
    IF n = 0 THEN {<<>>}
    ELSE LET shorter == SeqsUpTo(S, n - 1)
         IN  shorter \cup {Append(s, x) : s \in shorter, x \in S}

Distinct(s, key(_)) ==
    \A i, j \in 1..Len(s) : i # j => key(s[i]) # key(s[j])

PostingDoc(p) == p.doc_id

\* A postings object of the JSON file: distinct document ids, in file order.
PostingLists ==
    {s \in SeqsUpTo([doc_id : DocIds, freq : Freqs], Cardinality(DocIds)) :
        Distinct(s, PostingDoc)}

Dicts(K, V) == UNION {[D -> V] : D \in SUBSET K}

RECURSIVE SumLen(_, _)
SumLen(d, K) ==
    IF K = {} THEN 0
    ELSE LET k == CHOOSE x \in K : TRUE
         IN  Len(d[k]) + SumLen(d, K \ {k})

\* inverted_index.json: unreadable (missing file, invalid JSON), or an object
\* term -> postings holding at most n postings in all.
IndexFilesUpTo(n) ==
    {[ok |-> FALSE, data |-> EmptyDict]}
    \cup {[ok |-> TRUE, data |-> d] :
            d \in {x \in Dicts(Terms, PostingLists) : SumLen(x, DOMAIN x) <= n}}


DocLenCells == {<<>>, <<"0">>, <<"2">>, <<"x">>}

MetaRows == [doc_id : DocIds \cup {<<>>}, doc_len : DocLenCells]

\* doc_meta.csv: missing, or its rows.
MetaFilesUpTo(n) ==
    {[exists |-> FALSE, rows |-> <<>>]}
    \cup {[exists |-> TRUE, rows |-> r] : r \in SeqsUpTo(MetaRows, n)}

ContentCells == {<<>>, <<" ">>, <<"c">>}

\* corpus_clean_v2.csv: missing, or the content_final cell of its rows.
ContentFilesUpTo(n) ==
    {[exists |-> FALSE, rows |-> <<>>]}
    \cup {[exists |-> TRUE, rows |-> r] : r \in SeqsUpTo(ContentCells, n)}


(***************************************************************************)
(* Module-level loaders.                                                   *)
(***************************************************************************)
Init ==
    /\ pc = "load_index"
    /\ INVERTED_INDEX = EmptyDict
    /\ DOC_META = EmptyDict
    /\ DOC_LENGTHS = EmptyDict
    /\ DOC_CONTENT = EmptyDict
    /\ TOTAL_DOCS = 0
    /\ INIT_ERROR = None
    /\ request = [doc_id |-> <<>>, q |-> <<>>, top_k |-> <<>>]
    /\ response = [status |-> 0, body |-> EmptyDict]

LoadIndex(files) ==
    /\ pc = "load_index"
    /\ \E file \in files :
          IF file.ok
          THEN /\ INVERTED_INDEX' = file.data
               /\ UNCHANGED INIT_ERROR
          ELSE /\ INIT_ERROR' = "Failed to load inverted_index.json"
               /\ UNCHANGED INVERTED_INDEX
    /\ pc' = "load_meta"
    /\ UNCHANGED <<DOC_META, DOC_LENGTHS, DOC_CONTENT, TOTAL_DOCS, request, response>>

\* The loop over csv.DictReader rows: rows with an empty doc_id are skipped,
\* an empty doc_len cell reads as 1, and int() of a non-numeric cell raises
\* with the rows read so far already stored.
RECURSIVE ReadMeta(_, _, _)
ReadMeta(rows, meta, lens) ==
    IF rows = <<>> THEN [raised |-> FALSE, meta |-> meta, lens |-> lens]
    ELSE LET row == Head(rows)
             doc_id == row.doc_id
             n == IF row.doc_len = <<>> THEN [ok |-> TRUE, val |-> 1]
                  ELSE IntParse(row.doc_len)
         IN  IF doc_id = <<>> THEN ReadMeta(Tail(rows), meta, lens)
             ELSE IF ~n.ok THEN [raised |-> TRUE, meta |-> meta, lens |-> lens]
             ELSE ReadMeta(Tail(rows),
                           Put(meta, doc_id,
                               [url |-> "u", title |-> "t", image_url |-> "i",
                                doc_len |-> n.val]),
                           Put(lens, doc_id, n.val))

\* set of str(d) over every postings object of the index
AllIds(index) ==
    UNION {{index[t][i].doc_id : i \in 1..Len(index[t])} : t \in DOMAIN index}

LoadMeta(files) ==
    /\ pc = "load_meta"
    /\ \E file \in files :
          IF ~file.exists
          THEN UNCHANGED <<DOC_META, DOC_LENGTHS, TOTAL_DOCS, INIT_ERROR>>
          ELSE LET r == ReadMeta(file.rows, DOC_META, DOC_LENGTHS)
                   n == Cardinality(DOMAIN r.meta)
               IN  /\ DOC_META' = r.meta
                   /\ DOC_LENGTHS' = r.lens
                   /\ IF r.raised
                      THEN /\ INIT_ERROR' = "Failed to load doc_meta.csv"
                           /\ UNCHANGED TOTAL_DOCS
                      ELSE /\ TOTAL_DOCS' =
                                 IF n = 0 /\ DOMAIN INVERTED_INDEX # {}
                                 THEN Cardinality(AllIds(INVERTED_INDEX))
                                 ELSE n
                           /\ UNCHANGED INIT_ERROR
    /\ pc' = "load_content"
    /\ UNCHANGED <<INVERTED_INDEX, DOC_CONTENT, request, response>>

\* DOC_CONTENT[str(idx)] = (content_final or "").strip(), idx from 0
ReadContent(rows) ==
    [id \in {IntToStr(i - 1) : i \in 1..Len(rows)} |->
        Strip(rows[IntParse(id).val + 1])]

LoadContent(files) ==
    /\ pc = "load_content"
    /\ \E file \in files :
          IF file.exists
          THEN DOC_CONTENT' = ReadContent(file.rows)
          ELSE UNCHANGED DOC_CONTENT
    /\ pc' = "serving"
    /\ UNCHANGED <<INVERTED_INDEX, DOC_META, DOC_LENGTHS, TOTAL_DOCS, INIT_ERROR,
                   request, response>>

(***************************************************************************)
(* bm25_search                                                             *)
(***************************************************************************)
Min(a, b) == IF a <= b THEN a ELSE b
Max(a, b) == IF a >= b THEN a ELSE b

RECURSIVE SumOver(_, _)
SumOver(d, K) ==
    IF K = {} THEN 0
    ELSE LET k == CHOOSE x \in K : TRUE
         IN  d[k] + SumOver(d, K \ {k})

\* 2 * (z + z^3/3 + z^5/5 + ...), z = (p-q)/(p+q), in units of 1/Scale
RECURSIVE LnSeries(_, _, _, _)
LnSeries(z, pow, k, acc) ==
    IF k >= LnTerms \/ pow = 0 THEN 2 * acc
    ELSE LnSeries(z, ((((pow * z) \div Scale) * z) \div Scale), k + 1,
                  acc + (pow \div (2 * k + 1)))

\* math.log(p/q) for p, q > 0, in units of 1/Scale; negative exactly when
\* p < q and zero only when p = q
Ln(p, q) ==
    IF p = q THEN 0
    ELSE IF p > q
    THEN Max(1, LnSeries(((p - q) * Scale) \div (p + q),
                         ((p - q) * Scale) \div (p + q), 0, 0))
    ELSE 0 - Max(1, LnSeries(((q - p) * Scale) \div (p + q),
                             ((q - p) * Scale) \div (p + q), 0, 0))

\* N = TOTAL_DOCS or 1
CollectionSize == IF TOTAL_DOCS = 0 THEN 1 ELSE TOTAL_DOCS

\* avg_dl as the fraction n/d
AvgDl ==
    IF DOMAIN DOC_LENGTHS # {}
    THEN [n |-> SumOver(DOC_LENGTHS, DOMAIN DOC_LENGTHS),
          d |-> Cardinality(DOMAIN DOC_LENGTHS)]
    ELSE [n |-> FallbackAvgDl, d |-> 1]

\* idf = math.log((N - df + 0.5) / (df + 0.5) + 1) = log((2N + 2) / (2 df + 1))
Idf(df) == Ln(2 * CollectionSize + 2, 2 * df + 1)

\* dl / avg_dl as the fraction n/d, dl = DOC_LENGTHS.get(doc_id, avg_dl);
\* evaluated only when avg_dl # 0
LenRatio(doc_id) ==
    IF doc_id \in DOMAIN DOC_LENGTHS
    THEN [n |-> DOC_LENGTHS[doc_id] * AvgDl.d, d |-> AvgDl.n]
    ELSE [n |-> 1, d |-> 1]

\* idf * ((tf * (k1 + 1)) / (tf + k1 * (1 - b + b * (dl / avg_dl))))
TermScore(idf, tf, doc_id) ==
    LET r == LenRatio(doc_id)
        num == tf * (K1Num + K1Den) * BDen * r.d
        den == tf * K1Den * BDen * r.d + K1Num * ((BDen - BNum) * r.d + BNum * r.n)
    IN  (idf * num) \div den

\* scores[doc_id] += score on a defaultdict(float): a new key goes last
AddScore(scores, doc_id, score) ==
    IF \E i \in 1..Len(scores) : scores[i].doc_id = doc_id
    THEN [i \in 1..Len(scores) |->
            IF scores[i].doc_id = doc_id
            THEN [doc_id |-> doc_id, score |-> scores[i].score + score]
            ELSE scores[i]]
    ELSE Append(scores, [doc_id |-> doc_id, score |-> score])

RECURSIVE ScorePostings(_, _, _)
ScorePostings(postings, idf, scores) ==
    IF postings = <<>> THEN scores
    ELSE LET p == Head(postings)
         IN  ScorePostings(Tail(postings), idf,
                           AddScore(scores, p.doc_id,
                                    TermScore(idf, p.freq, p.doc_id)))

\* the loop over query_terms; terms without postings are skipped
RECURSIVE ScoreTerms(_, _)
ScoreTerms(query_terms, scores) ==
    IF query_terms = <<>> THEN scores
    ELSE LET postings == Get(INVERTED_INDEX, Head(query_terms), <<>>)
         IN  IF postings = <<>>
             THEN ScoreTerms(Tail(query_terms), scores)
             ELSE ScoreTerms(Tail(query_terms),
                             ScorePostings(postings, Idf(Len(postings)), scores))

\* one step of the stable descending sort: e goes after every entry whose
\* score is >= its own
InsertDesc(sorted, e) ==
    LET before == {i \in 1..Len(sorted) : sorted[i].score >= e.score}
        n == IF before = {} THEN 0 ELSE CHOOSE i \in before : \A j \in before : j <= i
    IN  SubSeq(sorted, 1, n) \o <<e>> \o SubSeq(sorted, n + 1, Len(sorted))

RECURSIVE SortDesc(_, _)
SortDesc(items, sorted) ==
    IF items = <<>> THEN sorted
    ELSE SortDesc(Tail(items), InsertDesc(sorted, Head(items)))

\* Mutant: the sort without reverse=True.
RankedAscending(scores) ==
    LET desc == SortDesc(scores, <<>>)
    IN  [i \in 1..Len(desc) |-> desc[Len(desc) + 1 - i]]

\* sorted(scores.items(), key=lambda x: x[1], reverse=True)
Ranked(scores) == SortDesc(scores, <<>>)

\* s[:k]
Slice(s, k) ==
    IF k >= 0 THEN SubSeq(s, 1, Min(k, Len(s)))
    ELSE SubSeq(s, 1, Max(Len(s) + k, 0))

Enrich(e) ==
    LET known == e.doc_id \in DOMAIN DOC_META
    IN  [doc_id |-> e.doc_id,
         title |-> IF known THEN DOC_META[e.doc_id].title ELSE "Untitled",
         url |-> IF known THEN DOC_META[e.doc_id].url ELSE "",
         image_url |-> IF known THEN DOC_META[e.doc_id].image_url ELSE "",
         doc_len |-> IF known THEN DOC_META[e.doc_id].doc_len ELSE NullLen,
         score |-> e.score]

\* dl / avg_dl divides by zero at the first posting scored when avg_dl = 0
Bm25Raises(query_terms) ==
    /\ DOMAIN INVERTED_INDEX # {}
    /\ AvgDl.n = 0
    /\ \E i \in 1..Len(query_terms) :
          Get(INVERTED_INDEX, query_terms[i], <<>>) # <<>>

\* the accumulated scores, in insertion order
Scores(query_terms) == ScoreTerms(query_terms, <<>>)

bm25_search(query_terms, top_k) ==
    IF DOMAIN INVERTED_INDEX = {} THEN <<>>
    ELSE LET top == Slice(Ranked(Scores(query_terms)), top_k)
         IN  [i \in 1..Len(top) |-> Enrich(top[i])]

(***************************************************************************)
(* handler.do_GET                                                          *)
(***************************************************************************)
NoResponse == [status |-> 0, body |-> EmptyDict]

\* parse_qs drops blank values, so the value of a parameter that is present is
\* never empty: an absent parameter is recorded as the empty string.
Absent == <<>>

NoRequest == [doc_id |-> Absent, q |-> Absent, top_k |-> Absent]

\* params.get(name, [default])[0]
Param(params, name, default) ==
    IF params[name] = Absent THEN default ELSE params[name]

\* Mutant: the parameter is used as the key without int() and str().
NormalizeIdVerbatim(doc_id_param) == doc_id_param

\* str(int(doc_id_param)), or the parameter itself when int() raises
NormalizeId(doc_id_param) ==
    LET n == IntParse(doc_id_param)
    IN  IF n.ok THEN IntToStr(n.val) ELSE doc_id_param

\* int(top_k_str), or 20 when int() raises
ParseTopK(top_k_str) ==
    LET n == IntParse(top_k_str)
    IN  IF n.ok THEN n.val ELSE DefaultTopK

InitErrorResponse ==
    [status |-> 500, body |-> [error |-> "INIT_ERROR", message |-> INIT_ERROR]]

\* Mutant: a document counts as found when the content table has an entry for
\* it, whatever its text.
DetailByEntry(doc_id_param) ==
    LET doc_id == NormalizeId(doc_id_param)
        known == doc_id \in DOMAIN DOC_META
        content == Get(DOC_CONTENT, doc_id, <<>>)
    IN  IF ~known /\ doc_id \notin DOMAIN DOC_CONTENT
        THEN [status |-> 404,
              body |-> [error |-> "DOCUMENT_NOT_FOUND", requested_id |-> doc_id]]
        ELSE [status |-> 200,
              body |-> [doc_id |-> doc_id,
                        title |-> IF known THEN DOC_META[doc_id].title ELSE "Untitled",
                        url |-> IF known THEN DOC_META[doc_id].url ELSE "",
                        image_url |-> IF known THEN DOC_META[doc_id].image_url ELSE "",
                        doc_len |-> IF known THEN DOC_META[doc_id].doc_len ELSE NullLen,
                        content |-> content]]

Detail(doc_id_param) ==
    LET doc_id == NormalizeId(doc_id_param)
        known == doc_id \in DOMAIN DOC_META
        content == Get(DOC_CONTENT, doc_id, <<>>)
    IN  IF ~known /\ content = <<>>
        THEN [status |-> 404,
              body |-> [error |-> "DOCUMENT_NOT_FOUND", requested_id |-> doc_id]]
        ELSE [status |-> 200,
              body |-> [doc_id |-> doc_id,
                        title |-> IF known THEN DOC_META[doc_id].title ELSE "Untitled",
                        url |-> IF known THEN DOC_META[doc_id].url ELSE "",
                        image_url |-> IF known THEN DOC_META[doc_id].image_url ELSE "",
                        doc_len |-> IF known THEN DOC_META[doc_id].doc_len ELSE NullLen,
                        content |-> content]]

Search(params) ==
    LET q == Strip(Param(params, "q", <<>>))
        top_k_str == Param(params, "top_k", IntToStr(DefaultTopK))
        query_terms == Split(Lower(q))
    IN  IF q = <<>>
        THEN [status |-> 400,
              body |-> [error |-> "Query parameter q is required", results |-> <<>>]]
        ELSE IF Bm25Raises(query_terms)
        THEN [status |-> 500,
              body |-> [error |-> "RUNTIME_ERROR", message |-> "float division by zero"]]
        ELSE LET results == bm25_search(query_terms, ParseTopK(top_k_str))
             IN  [status |-> 200,
                  body |-> [query |-> q, count |-> Len(results), results |-> results]]

\* Mutant: the load error is checked in search mode only.
AnswerDetailFirst(params) ==
    IF params.doc_id # Absent THEN Detail(params.doc_id)
    ELSE IF INIT_ERROR # None THEN InitErrorResponse
    ELSE Search(params)

\* Mutant: search mode is tried before detail mode.
AnswerSearchFirst(params) ==
    IF INIT_ERROR # None THEN InitErrorResponse
    ELSE IF params.q # Absent THEN Search(params)
    ELSE IF params.doc_id # Absent THEN Detail(params.doc_id)
    ELSE Search(params)

\* what do_GET writes for the parsed query parameters
Answer(params) ==
    IF INIT_ERROR # None THEN InitErrorResponse
    ELSE IF params.doc_id # Absent THEN Detail(params.doc_id)
    ELSE Search(params)

(***************************************************************************)
(* Requests.                                                               *)
(***************************************************************************)
QChars == {"a", "B", " "}

Queries == SeqsUpTo(QChars, MaxQLen) \ {<<>>}

TopKValues == {<<"0">>, <<"1">>, <<"-", "1">>, <<"x">>}

IdValues ==
    {<<"0">>, <<"1">>, <<"2">>, <<"0", "1">>, <<"0", "0", "1">>, <<"-", "0">>,
     <<"+", "1">>, <<" ", "1">>, <<"1", " ">>, <<"-", "1">>, <<"x">>, <<"1", "x">>,
     <<"-">>}

SearchRequests ==
    [doc_id : {Absent}, q : Queries \cup {Absent}, top_k : TopKValues \cup {Absent}]

DetailRequests ==
    [doc_id : IdValues, q : {Absent, <<"a">>}, top_k : {Absent}]

Requests == SearchRequests \cup DetailRequests

DetailOf(doc_id_param) == [doc_id |-> doc_id_param, q |-> Absent, top_k |-> Absent]

SearchOf(q, top_k_str) == [doc_id |-> Absent, q |-> q, top_k |-> top_k_str]

\* Mutant: looking a document up leaves an entry for it in the content table,
\* as a defaultdict would.
do_GETInserting(requests) ==
    /\ pc = "serving"
    /\ \E params \in requests :
          /\ request' = params
          /\ response' = Answer(params)
          /\ DOC_CONTENT' =
                IF INIT_ERROR = None /\ params.doc_id # Absent
                THEN Put(DOC_CONTENT, NormalizeId(params.doc_id),
                         Get(DOC_CONTENT, NormalizeId(params.doc_id), <<>>))
                ELSE DOC_CONTENT
    /\ pc' = "served"
    /\ UNCHANGED <<INVERTED_INDEX, DOC_META, DOC_LENGTHS, TOTAL_DOCS, INIT_ERROR>>

\* http.server parses the request line and calls do_GET, which writes the
\* response
do_GET(requests) ==
    /\ pc = "serving"
    /\ \E params \in requests :
          /\ request' = params
          /\ response' = Answer(params)
    /\ pc' = "served"
    /\ UNCHANGED tables

\* the handler returns and the connection is closed
Finish ==
    /\ pc = "served"
    /\ request' = NoRequest
    /\ response' = NoResponse
    /\ pc' = "serving"
    /\ UNCHANGED tables

\* Searching: every index, metadata and search request of the bounds; the
\* content table, which searching never reads, stays empty.
Next ==
    \/ LoadIndex(IndexFilesUpTo(MaxPostings))
    \/ LoadMeta(MetaFilesUpTo(MaxMetaRows))
    \/ LoadContent(ContentFilesUpTo(0))
    \/ do_GET(SearchRequests \cup {DetailOf(<<"0">>)})
    \/ Finish

Spec == Init /\ [][Next]_vars

\* Detail lookups: every metadata and content file and every detail request of
\* the bounds, over the indexes of at most one posting.
NextDetail ==
    \/ LoadIndex(IndexFilesUpTo(1))
    \/ LoadMeta(MetaFilesUpTo(MaxMetaRows))
    \/ LoadContent(ContentFilesUpTo(MaxContentRows))
    \/ do_GET(DetailRequests
              \cup {NoRequest, SearchOf(<<"a">>, Absent), SearchOf(<<"a">>, <<"0">>)})
    \/ Finish

SpecDetail == Init /\ [][NextDetail]_vars

(***************************************************************************)
(* Vocabulary of the properties.                                           *)
(***************************************************************************)
Loaded == pc \in {"serving", "served"}

Served == pc = "served"

IsDetailRequest == request.doc_id # Absent

ReqQuery == Strip(Param(request, "q", <<>>))

ReqTerms == Split(Lower(ReqQuery))

ReqTopKStr == Param(request, "top_k", IntToStr(DefaultTopK))

\* a success payload of search: {query, count, results}
IsSearchPayload(r) == r.status = 200 /\ DOMAIN r.body = {"query", "count", "results"}

\* a success payload of detail: the merged record
IsDetailPayload(r) ==
    /\ r.status = 200
    /\ DOMAIN r.body = {"doc_id", "title", "url", "image_url", "doc_len", "content"}

ErrorOf(r) == IF "error" \in DOMAIN r.body THEN r.body.error ELSE ""

MissingQuery == "Query parameter q is required"

\* the documents that received a score, with their accumulated scores
Scored == Scores(ReqTerms)

ResultIds(r) == {r.body.results[i].doc_id : i \in 1..Len(r.body.results)}

\* C1: a search whose top_k is an integer <= 0 returns an empty result list
\* with count 0 (stated for the searches that return a result list).
C1_NonPositiveTopKIsEmpty ==
    (/\ Served
     /\ INIT_ERROR = None
     /\ ~IsDetailRequest
     /\ IsSearchPayload(response)
     /\ IntParse(ReqTopKStr).ok
     /\ IntParse(ReqTopKStr).val <= 0)
    => (response.body.results = <<>> /\ response.body.count = 0)

\* C2: once loading has finished with an empty metadata table and an index
\* that holds postings, the collection size N of the ranker is the number of
\* distinct document ids of the postings; and N >= 1 always.
C2_FallbackCollectionSize ==
    Loaded =>
      /\ CollectionSize >= 1
      /\ (/\ INIT_ERROR = None
          /\ DOMAIN DOC_META = {}
          /\ AllIds(INVERTED_INDEX) # {})
         => CollectionSize = Cardinality(AllIds(INVERTED_INDEX))

\* C3 as stated: without load error, a detail request is answered
\* DOCUMENT_NOT_FOUND exactly when the normalized id has no entry in the
\* metadata table and no entry in the content table, and with the merged
\* record otherwise.
C3_NotFoundIffNoEntry ==
    (Served /\ INIT_ERROR = None /\ IsDetailRequest) =>
      LET doc_id == NormalizeId(request.doc_id)
      IN  IF doc_id \notin DOMAIN DOC_META /\ doc_id \notin DOMAIN DOC_CONTENT
          THEN ErrorOf(response) = "DOCUMENT_NOT_FOUND"
          ELSE IsDetailPayload(response)

\* C3 amended: without load error, a detail request is answered
\* DOCUMENT_NOT_FOUND (with the normalized id) exactly when the normalized id
\* has no entry in the metadata table and no non-empty text in the content
\* table; otherwise with the merged record of that id: its metadata, or the
\* defaults when it has none, and its content text.
C3_NotFoundIffNoMetaNoText ==
    (Served /\ INIT_ERROR = None /\ IsDetailRequest) =>
      LET doc_id == NormalizeId(request.doc_id)
          text == IF doc_id \in DOMAIN DOC_CONTENT THEN DOC_CONTENT[doc_id] ELSE <<>>
      IN  IF doc_id \notin DOMAIN DOC_META /\ text = <<>>
          THEN /\ response.status = 404
               /\ response.body = [error |-> "DOCUMENT_NOT_FOUND", requested_id |-> doc_id]
          ELSE /\ IsDetailPayload(response)
               /\ response.body.doc_id = doc_id
               /\ response.body.content = text
               /\ IF doc_id \in DOMAIN DOC_META
                  THEN /\ response.body.title = DOC_META[doc_id].title
                       /\ response.body.url = DOC_META[doc_id].url
                       /\ response.body.image_url = DOC_META[doc_id].image_url
                       /\ response.body.doc_len = DOC_META[doc_id].doc_len
                  ELSE /\ response.body.title = "Untitled"
                       /\ response.body.url = ""
                       /\ response.body.image_url = ""
                       /\ response.body.doc_len = NullLen

\* a detail request for an id whose only trace is a content entry with empty
\* text, answered DOCUMENT_NOT_FOUND
C3_Witness ==
    /\ Served /\ INIT_ERROR = None /\ IsDetailRequest
    /\ NormalizeId(request.doc_id) \in DOMAIN DOC_CONTENT
    /\ DOC_CONTENT[NormalizeId(request.doc_id)] = <<>>
    /\ NormalizeId(request.doc_id) \notin DOMAIN DOC_META
    /\ ErrorOf(response) = "DOCUMENT_NOT_FOUND"

\* C4: once the load-error signal is set, no load step and no request clears
\* it, and every request handled from then on is answered INIT_ERROR.
C4_InitErrorIsFinal ==
    [][INIT_ERROR # None =>
         /\ INIT_ERROR' # None
         /\ pc' = "served" =>
              /\ response'.status = 500
              /\ response'.body = [error |-> "INIT_ERROR", message |-> INIT_ERROR']]_vars

\* the index failed to load, the later loaders ran, and a search request was
\* answered INIT_ERROR
C4_Witness ==
    /\ Served
    /\ INIT_ERROR = "Failed to load inverted_index.json"
    /\ DOMAIN DOC_META # {}
    /\ ~IsDetailRequest /\ ReqQuery # <<>>
    /\ ErrorOf(response) = "INIT_ERROR"

\* C5: for a search with integer top_k >= 1 that returns a result list, the
\* list is sorted by non-increasing score, has min(top_k, number of scored
\* documents) entries, each a scored document with its accumulated score,
\* and no scored document outside the list has a strictly higher score than
\* one inside.
C5_TopKOfRanking ==
    (/\ Served
     /\ INIT_ERROR = None
     /\ ~IsDetailRequest
     /\ IsSearchPayload(response)
     /\ ParseTopK(ReqTopKStr) >= 1) =>
      LET results == response.body.results
      IN  /\ \A i, j \in 1..Len(results) :
                i < j => results[i].score >= results[j].score
          /\ Len(results) = Min(ParseTopK(ReqTopKStr), Len(Scored))
          /\ response.body.count = Len(results)
          /\ \A i \in 1..Len(results) :
                \E k \in 1..Len(Scored) :
                   /\ Scored[k].doc_id = results[i].doc_id
                   /\ Scored[k].score = results[i].score
          /\ \A i, j \in 1..Len(results) :
                i # j => results[i].doc_id # results[j].doc_id
          /\ \A k \in 1..Len(Scored) :
                Scored[k].doc_id \notin ResultIds(response) =>
                   \A i \in 1..Len(results) : Scored[k].score <= results[i].score

\* two documents were scored, the later one higher, and top_k = 1 kept it
C5_Witness ==
    /\ Served /\ INIT_ERROR = None /\ ~IsDetailRequest
    /\ IsSearchPayload(response)
    /\ ParseTopK(ReqTopKStr) = 1
    /\ Len(Scored) = 2
    /\ Scored[1].score < Scored[2].score
    /\ Len(response.body.results) = 1
    /\ response.body.results[1].doc_id = Scored[2].doc_id

\* C6: once loading has finished no step changes the index, the metadata,
\* length and content tables, the collection size or the load-error signal,
\* and the response a request got is the response the same request gets in
\* the state its handling left.
C6_RequestsChangeNothing ==
    /\ [][Loaded => tables' = tables]_vars
    /\ [](Served => response = Answer(request))

\* a search answered with two results of equal score
C6_Witness ==
    /\ Served /\ INIT_ERROR = None /\ ~IsDetailRequest
    /\ IsSearchPayload(response)
    /\ Len(response.body.results) = 2
    /\ response.body.results[1].score = response.body.results[2].score

\* canonical decimal form: "0", or an optional "-" and digits without a
\* leading zero
Canonical(s) ==
    LET digits == IF s # <<>> /\ Head(s) = "-" THEN Tail(s) ELSE s
    IN  /\ digits # <<>>
        /\ \A i \in 1..Len(digits) : digits[i] \in DigitChars
        /\ (Head(digits) = "0" => s = <<"0">>)

\* the id a detail response reports
ResponseId(r) ==
    IF "doc_id" \in DOMAIN r.body THEN r.body.doc_id ELSE r.body.requested_id

\* C7: a detail request whose doc_id parses as an integer is looked up under
\* a canonical decimal string, and every other doc_id that denotes the same
\* integer gets the same response; a doc_id that does not parse is looked up
\* verbatim.
C7_SameIntegerSameDetail ==
    (Served /\ INIT_ERROR = None /\ IsDetailRequest) =>
      LET raw == request.doc_id
          n == IntParse(raw)
      IN  IF n.ok
          THEN /\ Canonical(ResponseId(response))
               /\ IntParse(ResponseId(response)).val = n.val
               /\ \A other \in IdValues :
                     (IntParse(other).ok /\ IntParse(other).val = n.val) =>
                        Answer(DetailOf(other)) = response
          ELSE ResponseId(response) = raw

\* "001" found the document stored under "1"
C7_Witness ==
    /\ Served /\ INIT_ERROR = None /\ IsDetailRequest
    /\ request.doc_id = <<"0", "0", "1">>
    /\ IsDetailPayload(response)
    /\ response.body.doc_id = <<"1">>

\* C8: a request that carries both doc_id and q gets the detail outcome of
\* that doc_id: the merged record or DOCUMENT_NOT_FOUND, never a search
\* payload, the missing-query error or a ranking failure.
C8_DetailTakesPrecedence ==
    (Served /\ INIT_ERROR = None /\ request.doc_id # Absent /\ request.q # Absent) =>
      /\ \/ IsDetailPayload(response)
         \/ response.status = 404 /\ ErrorOf(response) = "DOCUMENT_NOT_FOUND"
      /\ response = Answer(DetailOf(request.doc_id))

\* doc_id and q together, answered with the merged record
C8_Witness ==
    /\ Served /\ INIT_ERROR = None
    /\ request.doc_id # Absent /\ request.q # Absent
    /\ <<"a">> \in DOMAIN INVERTED_INDEX
    /\ IsDetailPayload(response)
    /\ response.body.content # <<>>

\* C9: without load error and without doc_id, the missing-query error is
\* returned exactly when q is empty after trimming; every other query gets a
\* success payload, which is empty with count 0 when no term matches.
C9_MissingQueryIffBlank ==
    (Served /\ INIT_ERROR = None /\ ~IsDetailRequest) =>
      IF ReqQuery = <<>>
      THEN response.status = 400 /\ ErrorOf(response) = MissingQuery
      ELSE /\ IsSearchPayload(response)
           /\ (\A i \in 1..Len(ReqTerms) :
                  Get(INVERTED_INDEX, ReqTerms[i], <<>>) = <<>>)
              => (response.body.results = <<>> /\ response.body.count = 0)

\* C10: after a load without error every term's document frequency is at
\* most N, so every idf and every score of a result list is >= 0.
C10_DfAtMostN ==
    (Loaded /\ INIT_ERROR = None) =>
      /\ \A t \in DOMAIN INVERTED_INDEX :
            /\ Len(INVERTED_INDEX[t]) <= CollectionSize
            /\ INVERTED_INDEX[t] # <<>> => Idf(Len(INVERTED_INDEX[t])) >= 0
      /\ (Served /\ IsSearchPayload(response)) =>
            \A i \in 1..Len(response.body.results) :
               response.body.results[i].score >= 0

====
